---- MODULE Spec2Model ----
(***************************************************************************)
(* Model of youtube_bot.py: the admission gate (processing_request,        *)
(* current_tasks), the cancellation flag (cancel_requested), the handlers  *)
(* youtube_handler, quality_callback, cancel_callback, cancel_handler and  *)
(* download_video_with_progress with its outcome classification.           *)
(*                                                                         *)
(* Handlers are coroutines on one asyncio event loop: a handler runs       *)
(* without interruption from one await to the next, so every action below  *)
(* is the code between two awaits of one handler.                          *)
(***************************************************************************)
EXTENDS Integers, Sequences, FiniteSets, TLC

\* ------------------------------------------------------------------------
\* Bounds of the model
\* ------------------------------------------------------------------------
\* number of URL messages handled in one behaviour
MaxMsgs == 2
\* number of quality-button callback queries in one behaviour
MaxPresses == 2
\* number of distinct users talking to the bot
NumUsers == 2
\* longest DownloadError message, in chunks, that Classify is tried on
MaxChunks == 2

Users == 1..NumUsers

\* ------------------------------------------------------------------------
\* Strings.  An error message is a sequence of chunks; a chunk is n
\* characters of a word.  The three marker words are the substrings the
\* code searches for; "other" is text that contains none of them.
\* ------------------------------------------------------------------------
Markers == {"Private video", "Members-only", "Sign in"}

WordLen(w) ==
  CASE w = "Private video" -> 13
    [] w = "Members-only" -> 12
    [] w = "Sign in" -> 7
    [] OTHER -> 0

Chunk(w, n) == [w |-> w, n |-> n]
Word(w) == Chunk(w, WordLen(w))

RECURSIVE StrLen(_)
StrLen(s) == IF s = <<>> THEN 0 ELSE Head(s).n + StrLen(Tail(s))

\* Python's  sub in s
Contains(s, w) == \E i \in DOMAIN s : s[i].w = w /\ s[i].n = WordLen(w)

\* Python's  s[:k]
RECURSIVE Slice(_, _)
Slice(s, k) ==
  IF s = <<>> \/ k <= 0 THEN <<>>
  ELSE IF Head(s).n <= k THEN <<Head(s)>> \o Slice(Tail(s), k - Head(s).n)
  ELSE <<Chunk(Head(s).w, k)>>

\* ------------------------------------------------------------------------
\* Outcomes of download_video_with_progress: the pair (success, result).
\* result is a file path on success and a message on failure; both are
\* kept in one record shape.
\* ------------------------------------------------------------------------
Message(tag, detail) == [tag |-> tag, path |-> <<>>, detail |-> detail]
File(path) == [tag |-> "file", path |-> path, detail |-> <<>>]
Outcome(success, value) == [success |-> success, value |-> value]
NoOutcome == Outcome(FALSE, Message("none", <<>>))

\* cancel_handler has not replied yet
NoReply == [user |-> 0, text |-> "none"]
\* no format expression has been built, no sample given, no text rendered
NoFormat == <<>>
NoSample == [status |-> "none"]
NoText == [rendered |-> FALSE]

\* the slice bound of line 204
ErrorSlice == 200

\* a variant of the classification that tests 'Members-only' first
DownloadErrorOutcomeSwapped(error_msg) ==
  IF Contains(error_msg, "Members-only")
    THEN Outcome(FALSE, Message("Members-only video", <<>>))
  ELSE IF Contains(error_msg, "Private video")
    THEN Outcome(FALSE, Message("Private video - Login required", <<>>))
  ELSE IF Contains(error_msg, "Sign in")
    THEN Outcome(FALSE, Message("Login required - Use /cookies to upload cookies", <<>>))
  ELSE Outcome(FALSE, Message("Download error: ", Slice(error_msg, ErrorSlice)))

\* except yt_dlp.utils.DownloadError as e
DownloadErrorOutcome(error_msg) ==
  IF Contains(error_msg, "Private video")
    THEN Outcome(FALSE, Message("Private video - Login required", <<>>))
  ELSE IF Contains(error_msg, "Members-only")
    THEN Outcome(FALSE, Message("Members-only video", <<>>))
  ELSE IF Contains(error_msg, "Sign in")
    THEN Outcome(FALSE, Message("Login required - Use /cookies to upload cookies", <<>>))
  ELSE Outcome(FALSE, Message("Download error: ", Slice(error_msg, ErrorSlice)))

\* except Exception as e
UnexpectedOutcome(e) == Outcome(FALSE, Message("Unexpected error: ", e))

\* ------------------------------------------------------------------------
\* File names.  A path is a sequence of atoms; an atom that starts with a
\* dot is one of DottedAtoms, every other atom contains no dot.
\* ------------------------------------------------------------------------
DottedAtoms == {".mp4", ".mkv", ".webm", ".m4a"}

\* downloaded_file.replace('.webm', '.mp4').replace('.mkv', '.mp4')
ReplaceContainer(path) ==
  [i \in DOMAIN path |-> IF path[i] \in {".webm", ".mkv"} THEN ".mp4" ELSE path[i]]

\* downloaded_file.rsplit('.', 1)[0]
RsplitBase(path) ==
  LET dots == {i \in DOMAIN path : path[i] \in DottedAtoms}
  IN  IF dots = {} THEN path
      ELSE SubSeq(path, 1, (CHOOSE j \in dots : \A i \in dots : i <= j) - 1)

\* a lookup that tries '.mkv' first
ProbeOrderMkvFirst == <<".mkv", ".mp4", ".webm">>

\* for ext in ['.mp4', '.mkv', '.webm']
ProbeOrder == <<".mp4", ".mkv", ".webm">>

\* lines 179-193: the file the download reports, given the files on disk
FinalFile(downloaded_file, files) ==
  LET final_file == ReplaceContainer(downloaded_file)
      found == {i \in DOMAIN ProbeOrder :
                  (RsplitBase(downloaded_file) \o <<ProbeOrder[i]>>) \in files}
  IN  IF final_file \in files \/ found = {} THEN final_file
      ELSE RsplitBase(downloaded_file)
             \o <<ProbeOrder[CHOOSE i \in found : \A j \in found : i <= j]>>

LocateOutcome(downloaded_file, files) ==
  IF FinalFile(downloaded_file, files) \in files
    THEN Outcome(TRUE, File(FinalFile(downloaded_file, files)))
    ELSE Outcome(FALSE, Message("Downloaded file not found", <<>>))

\* ------------------------------------------------------------------------
\* The progress hook of line 165: asyncio.create_task needs the running
\* event loop of the calling thread.  On the loop's thread it schedules
\* progress_callback; on any other thread it raises RuntimeError.
\* ------------------------------------------------------------------------
NoRunningLoop == <<Chunk("other", 21)>>

ProgressHook(thread) == IF thread = "loop" THEN "scheduled" ELSE "RuntimeError"

\* line 176: run_in_executor(None, ...) runs the engine on a pool thread
EngineThread == "executor"

\* ------------------------------------------------------------------------
\* What the environment can do
\* ------------------------------------------------------------------------
\* the title of the requested video, behind DOWNLOAD_PATH (outtmpl, line 156)
VideoPath == <<"downloads/", "video">>

\* ydl.extract_info(url, download=False): returns the info or raises
EngineProbes ==
  { [raises |-> FALSE, msg |-> <<>>],
    [raises |-> TRUE, msg |-> <<Chunk("other", 7), Word("Private video")>>] }

\* ydl.extract_info(url, download=True) returning normally: the extension
\* prepare_filename reports and the files the engine left on disk
EngineRuns ==
  { [ext |-> ".webm", written |-> {VideoPath \o <<".mp4">>}],
    [ext |-> ".mp4", written |-> {}] }

\* messages of a DownloadError raised by extract_info(url, download=True)
EngineErrors ==
  { <<Chunk("other", 7), Word("Sign in"), Chunk("other", 40)>>,
    <<Chunk("other", 500)>> }

\* messages of any other exception raised by it
EngineFaults == { <<Chunk("other", 300)>> }

\* ------------------------------------------------------------------------
\* State
\* ------------------------------------------------------------------------
VARIABLES
  processing_request,  \* line 44
  cancel_requested,    \* line 45
  current_tasks,       \* line 46: user id -> task
  yh,                  \* the youtube_handler invocations, in order of arrival
  qc,                  \* the quality_callback invocations, in order of arrival
  files,               \* the files in DOWNLOAD_PATH
  holders,             \* history: URL messages admitted since the last release
  cancel_reply,        \* history: the last reply of cancel_handler
  error_msg,           \* line 196, for the classification on its own
  classified,          \* what lines 197-204 return for error_msg
  downloaded_file,     \* line 179, for the file lookup on its own
  located,             \* what lines 180-193 return for downloaded_file
  data,                \* line 443, for the format expression on its own
  ydl_format,          \* ydl_opts['format'] of line 155 for data
  d,                   \* the sample handed to progress_callback
  progress_text        \* what lines 210-230 render for d

botVars == <<processing_request, cancel_requested, current_tasks, yh, qc,
             files, holders, cancel_reply>>
pureVars == <<error_msg, classified, downloaded_file, located, data,
              ydl_format, d, progress_text>>
vars == <<processing_request, cancel_requested, current_tasks, yh, qc,
          files, holders, cancel_reply, error_msg, classified,
          downloaded_file, located, data, ydl_format, d, progress_text>>

BotInit ==
  /\ processing_request = FALSE
  /\ cancel_requested = FALSE
  /\ current_tasks = <<>>
  /\ yh = <<>>
  /\ qc = <<>>
  /\ files = {}
  /\ holders = {}
  /\ cancel_reply = NoReply

\* the variables of the pure functions, when they are not under test
PureIdle ==
  /\ error_msg = <<>>
  /\ classified = NoOutcome
  /\ downloaded_file = <<>>
  /\ located = NoOutcome
  /\ data = <<>>
  /\ ydl_format = NoFormat
  /\ d = NoSample
  /\ progress_text = NoText

Init ==
  /\ BotInit
  /\ PureIdle

\* ------------------------------------------------------------------------
\* Tasks.  asyncio.current_task() in a handler is the dispatcher worker
\* that runs it (Client(workers=20), line 78); a worker runs one handler
\* at a time and takes the next update when the handler has returned.
\* Only the workers stored in current_tasks have an identity that matters:
\* they are named by the URL message that stored them first, every other
\* worker is 0.
\* ------------------------------------------------------------------------
ActiveYh == {m \in DOMAIN yh : yh[m].pc # "done"}
ActiveQc == {s \in DOMAIN qc : qc[s].pc # "done"}

BusyTasks == {yh[m].task : m \in ActiveYh} \cup {qc[s].task : s \in ActiveQc}

\* the workers a new handler invocation can run on
FreeTasks == {0} \cup ({current_tasks[u] : u \in DOMAIN current_tasks} \ BusyTasks)

\* current_tasks[user_id] = task
Register(tasks, u, t) ==
  [x \in DOMAIN tasks \cup {u} |-> IF x = u THEN t ELSE tasks[x]]

\* current_tasks.pop(user_id, None)
Pop(tasks, u) == [x \in DOMAIN tasks \ {u} |-> tasks[x]]

\* task.cancel(): the handler that task t is running, being suspended at an
\* await, gets CancelledError there
CancelTask(t) ==
  /\ yh' = [m \in DOMAIN yh |->
              IF m \in ActiveYh /\ yh[m].task = t
                THEN [yh[m] EXCEPT !.cancelling = TRUE] ELSE yh[m]]
  /\ qc' = [s \in DOMAIN qc |->
              LET seen == [qc[s] EXCEPT !.cancel_seen =
                             @ \/ qc[s].pc = "downloading"]
              IN  IF s \in ActiveQc /\ qc[s].task = t /\ t # 0
                    THEN [seen EXCEPT !.cancelling = TRUE] ELSE seen]

\* ------------------------------------------------------------------------
\* youtube_handler
\* ------------------------------------------------------------------------
YhRecord(u, t, pc, end) ==
  [user |-> u, task |-> t, pc |-> pc, end |-> end, cancelling |-> FALSE,
   cancel_pressed |-> FALSE]

\* a gate that is never seen busy
GateBusyNever == FALSE

\* line 397: if processing_request
GateBusy == processing_request

\* a busy reply that also keeps the request, as an entry of current_tasks
reply_busy_queued(u) ==
  /\ yh' = Append(yh, YhRecord(u, 0, "done", "busy"))
  /\ current_tasks' = Register(current_tasks, u, 0)
  /\ UNCHANGED <<processing_request, holders>>

\* lines 398-399: the busy reply and the return
reply_busy(u) ==
  /\ yh' = Append(yh, YhRecord(u, 0, "done", "busy"))
  /\ UNCHANGED <<processing_request, current_tasks, holders>>

\* lines 397-410, from the call to the first await.  There is no await
\* between the test of line 397 and the assignments of lines 409-410.
youtube_handler(u) ==
  /\ Len(yh) < MaxMsgs
  /\ LET m == Len(yh) + 1 IN
     IF GateBusy
       THEN reply_busy(u)
     ELSE IF u \in DOMAIN current_tasks
       THEN /\ yh' = Append(yh, YhRecord(u, 0, "done", "duplicate"))
            /\ UNCHANGED <<processing_request, current_tasks, holders>>
     ELSE \E w \in FreeTasks :
            LET t == IF w = 0 THEN m ELSE w IN
            /\ processing_request' = TRUE
            /\ current_tasks' = Register(current_tasks, u, t)
            /\ yh' = Append(yh, YhRecord(u, t, "reply_keyboard", "none"))
            /\ holders' = holders \cup {m}
  /\ UNCHANGED <<cancel_requested, qc, files, cancel_reply, pureVars>>

\* lines 427-431: the await of the keyboard reply returns, raises, or is
\* cancelled; except Exception does not catch CancelledError
youtube_handler_reply(m) ==
  /\ m \in DOMAIN yh
  /\ yh[m].pc = "reply_keyboard"
  /\ \/ /\ yh[m].cancelling
        /\ yh' = [yh EXCEPT ![m].pc = "done", ![m].end = "cancelled",
                            ![m].cancelling = FALSE]
     \/ /\ ~yh[m].cancelling
        /\ yh' = [yh EXCEPT ![m].pc = "done", ![m].end = "keyboard"]
     \/ /\ ~yh[m].cancelling
        /\ yh' = [yh EXCEPT ![m].pc = "reply_error"]
  /\ UNCHANGED <<processing_request, cancel_requested, current_tasks, qc,
                 files, holders, cancel_reply, pureVars>>

\* lines 433-436: the await of the error reply, then the release
youtube_handler_error(m) ==
  /\ m \in DOMAIN yh
  /\ yh[m].pc = "reply_error"
  /\ \/ /\ yh[m].cancelling
        /\ yh' = [yh EXCEPT ![m].pc = "done", ![m].end = "cancelled",
                            ![m].cancelling = FALSE]
        /\ UNCHANGED <<processing_request, current_tasks, holders>>
     \/ /\ ~yh[m].cancelling
        /\ yh' = [yh EXCEPT ![m].pc = "done", ![m].end = "released"]
        /\ processing_request' = FALSE
        /\ current_tasks' = Pop(current_tasks, yh[m].user)
        /\ holders' = {}
     \/ /\ ~yh[m].cancelling
        /\ yh' = [yh EXCEPT ![m].pc = "done", ![m].end = "error_reply_failed"]
        /\ UNCHANGED <<processing_request, current_tasks, holders>>
  /\ UNCHANGED <<cancel_requested, qc, files, cancel_reply, pureVars>>

\* ------------------------------------------------------------------------
\* The keyboard of lines 414-425.  A press of one of its buttons is a
\* callback query; the dispatcher may hand it to a worker at any later
\* time, so a handler can start whenever the keyboard has been sent.
\* ------------------------------------------------------------------------
KeyboardSent(m) == m \in DOMAIN yh /\ yh[m].end = "keyboard"

\* cancel_callback (lines 513-519), for the Cancel button of keyboard m
SeeCancel(sessions) ==
  [s \in DOMAIN sessions |->
     [sessions[s] EXCEPT !.cancel_seen = @ \/ sessions[s].pc = "downloading"]]

cancel_callback(m) ==
  /\ KeyboardSent(m)
  /\ ~yh[m].cancel_pressed
  /\ cancel_requested' = TRUE
  /\ qc' = SeeCancel(qc)
  /\ yh' = [yh EXCEPT ![m].cancel_pressed = TRUE]
  /\ UNCHANGED <<processing_request, current_tasks, files, holders,
                 cancel_reply, pureVars>>

\* the reply of cancel_handler to user u
CancelReply(u, text) == [user |-> u, text |-> text]

\* a cancel_handler that raises the flag before it looks for the entry
cancel_handler_flag_first(u) ==
  /\ cancel_requested' = TRUE
  /\ IF u \in DOMAIN current_tasks
       THEN /\ CancelTask(current_tasks[u])
            /\ cancel_reply' = CancelReply(u, "Download cancelled")
       ELSE /\ cancel_reply' = CancelReply(u, "No active download to cancel")
            /\ UNCHANGED <<yh, qc>>
  /\ UNCHANGED <<processing_request, current_tasks, files, holders, pureVars>>

\* cancel_handler (lines 379-390), up to the await of its reply
cancel_handler(u) ==
  IF u \in DOMAIN current_tasks
    THEN /\ cancel_requested' = TRUE
         /\ CancelTask(current_tasks[u])
         /\ cancel_reply' = CancelReply(u, "Download cancelled")
         /\ UNCHANGED <<processing_request, current_tasks, files, holders,
                        pureVars>>
    ELSE /\ cancel_reply' = CancelReply(u, "No active download to cancel")
         /\ UNCHANGED <<processing_request, cancel_requested, current_tasks,
                        yh, qc, files, holders, pureVars>>

\* ------------------------------------------------------------------------
\* quality_callback (lines 438-511) with download_video_with_progress
\* (lines 141-206) and get_video_info (lines 95-112) inlined at their calls.
\* The callback data comes from the buttons of lines 416-422, so it has at
\* least three parts and line 446 is not taken.
\* ------------------------------------------------------------------------
\* lines 106-112: any exception of the probe is logged and becomes None
get_video_info(probe) == IF probe.raises THEN "None" ELSE "info"

QcRecord(u, m, t) ==
  [user |-> u, msg |-> m, task |-> t, pc |-> "edit_starting",
   cancelling |-> FALSE, outcome |-> NoOutcome, exit |-> "none",
   probe |-> <<>>, cancel_seen |-> FALSE, ticked |-> FALSE, scheduled |-> FALSE,
   send_called |-> FALSE]

\* the handler has returned: its locals are gone, the way it ended is kept
Returned(session, exit) ==
  [QcRecord(session.user, session.msg, 0) EXCEPT !.pc = "done", !.exit = exit]

\* a release that is the last statement of the try block
ReleaseAfterDelivery(s, exit) ==
  /\ qc' = [qc EXCEPT ![s] = Returned(qc[s], exit)]
  /\ IF exit = "delivered"
       THEN /\ processing_request' = FALSE
            /\ current_tasks' = Pop(current_tasks, qc[s].user)
            /\ cancel_requested' = FALSE
            /\ holders' = {}
       ELSE UNCHANGED <<processing_request, current_tasks, cancel_requested,
                        holders>>

\* lines 507-511: the finally block, and the return of quality_callback
Finally(s, exit) ==
  /\ qc' = [qc EXCEPT ![s] = Returned(qc[s], exit)]
  /\ processing_request' = FALSE
  /\ current_tasks' = Pop(current_tasks, qc[s].user)
  /\ cancel_requested' = FALSE
  /\ holders' = {}

\* an await inside the try block that does not return normally:
\* CancelledError goes to line 502, any other exception to line 504
Raise(s, cancelled) ==
  /\ qc' = [qc EXCEPT ![s].pc = IF cancelled THEN "edit_cancelled" ELSE "edit_error",
                      ![s].cancelling = FALSE]
  /\ UNCHANGED <<processing_request, cancel_requested, current_tasks, holders>>

\* lines 468 and 500: the branch taken on the outcome of the download
AfterDownload(s, outcome, ticked) ==
  /\ qc' = [qc EXCEPT ![s].outcome = outcome, ![s].ticked = @ \/ ticked,
                      ![s].pc = IF outcome.success /\ outcome.value.path \in files'
                                  THEN "edit_uploading" ELSE "edit_failed"]
  /\ UNCHANGED <<processing_request, cancel_requested, current_tasks, holders>>

\* a quality button of keyboard m: lines 443-453, from the call to the
\* await of edit_text
quality_callback(m) ==
  /\ KeyboardSent(m)
  /\ Len(qc) < MaxPresses
  /\ \E w \in FreeTasks : qc' = Append(qc, QcRecord(yh[m].user, m, w))
  /\ UNCHANGED <<processing_request, cancel_requested, current_tasks, yh,
                 files, holders, cancel_reply, pureVars>>

\* line 453 raises or is cancelled: the handler ends before the try block
quality_callback_not_started(s) ==
  /\ s \in DOMAIN qc
  /\ qc[s].pc = "edit_starting"
  /\ qc' = [qc EXCEPT ![s] = Returned(qc[s], "before_try")]
  /\ UNCHANGED <<processing_request, cancel_requested, current_tasks, yh,
                 files, holders, cancel_reply, pureVars>>

\* line 453 returns; lines 455-466 and 145-176: the probe, then either the
\* failure of line 149 or the await of run_in_executor
quality_callback_started(s) ==
  /\ s \in DOMAIN qc
  /\ qc[s].pc = "edit_starting"
  /\ ~qc[s].cancelling
  /\ \E probe \in EngineProbes :
       IF get_video_info(probe) = "None"
         THEN /\ qc' = [qc EXCEPT ![s].probe = probe.msg,
                          ![s].outcome = Outcome(FALSE,
                              Message("Failed to get video information", <<>>)),
                          ![s].pc = "edit_failed"]
         ELSE /\ qc' = [qc EXCEPT ![s].pc = "downloading"]
  /\ UNCHANGED <<processing_request, cancel_requested, current_tasks, yh,
                 files, holders, cancel_reply, pureVars>>

Downloading(s) == s \in DOMAIN qc /\ qc[s].pc = "downloading"

UnchangedByDownload == UNCHANGED <<yh, cancel_reply, pureVars>>

\* line 176 is cancelled: CancelledError passes the except clauses of lines
\* 195 and 205 and reaches line 502
download_cancelled(s) ==
  /\ Downloading(s)
  /\ qc[s].cancelling
  /\ Raise(s, TRUE)
  /\ UNCHANGED files
  /\ UnchangedByDownload

\* the engine calls the progress hook of line 165 on its thread.  When the
\* hook raises, the exception ends extract_info and line 205 catches it.
engine_tick(s) ==
  /\ Downloading(s)
  /\ ~qc[s].cancelling
  /\ ~qc[s].ticked
  /\ UNCHANGED files
  /\ IF ProgressHook(EngineThread) = "scheduled"
       THEN /\ qc' = [qc EXCEPT ![s].ticked = TRUE, ![s].scheduled = TRUE]
            /\ UNCHANGED <<processing_request, cancel_requested, current_tasks,
                           holders>>
       ELSE AfterDownload(s, UnexpectedOutcome(NoRunningLoop), TRUE)
  /\ UnchangedByDownload

\* extract_info returns: lines 179-193
engine_returns(s) ==
  /\ Downloading(s)
  /\ ~qc[s].cancelling
  /\ \E run \in EngineRuns :
       /\ files' = files \cup run.written
       /\ AfterDownload(s, LocateOutcome(VideoPath \o <<run.ext>>, files'), FALSE)
  /\ UnchangedByDownload

\* extract_info raises DownloadError: lines 195-204
engine_download_error(s) ==
  /\ Downloading(s)
  /\ ~qc[s].cancelling
  /\ UNCHANGED files
  /\ \E msg \in EngineErrors : AfterDownload(s, DownloadErrorOutcome(msg), FALSE)
  /\ UnchangedByDownload

\* extract_info raises another exception: lines 205-206
engine_fault(s) ==
  /\ Downloading(s)
  /\ ~qc[s].cancelling
  /\ UNCHANGED files
  /\ \E msg \in EngineFaults : AfterDownload(s, UnexpectedOutcome(msg), FALSE)
  /\ UnchangedByDownload

\* line 470 returns: lines 473-493, up to the await of send_video
upload_started(s) ==
  /\ s \in DOMAIN qc
  /\ qc[s].pc = "edit_uploading"
  /\ ~qc[s].cancelling
  /\ qc' = [qc EXCEPT ![s].pc = "send_video", ![s].send_called = TRUE]
  /\ UNCHANGED <<processing_request, cancel_requested, current_tasks, yh,
                 files, holders, cancel_reply, pureVars>>

\* send_video returns: line 496 removes the file (os.remove raises when the
\* file is gone), then the await of line 497
video_sent(s) ==
  /\ s \in DOMAIN qc
  /\ qc[s].pc = "send_video"
  /\ ~qc[s].cancelling
  /\ IF qc[s].outcome.value.path \in files
       THEN /\ files' = files \ {qc[s].outcome.value.path}
            /\ qc' = [qc EXCEPT ![s].pc = "delete"]
            /\ UNCHANGED <<processing_request, cancel_requested, current_tasks,
                           holders>>
       ELSE /\ UNCHANGED files
            /\ Raise(s, FALSE)
  /\ UNCHANGED <<yh, cancel_reply, pureVars>>

\* line 497 returns: the try block is over
message_deleted(s) ==
  /\ s \in DOMAIN qc
  /\ qc[s].pc = "delete"
  /\ ~qc[s].cancelling
  /\ Finally(s, "delivered")
  /\ UNCHANGED <<yh, files, cancel_reply, pureVars>>

\* line 500 returns
failure_reported(s) ==
  /\ s \in DOMAIN qc
  /\ qc[s].pc = "edit_failed"
  /\ ~qc[s].cancelling
  /\ Finally(s, "failed")
  /\ UNCHANGED <<yh, files, cancel_reply, pureVars>>

\* one of the awaits of lines 470, 486, 497, 500 raises or is cancelled
await_raises(s) ==
  /\ s \in DOMAIN qc
  /\ qc[s].pc \in {"edit_uploading", "send_video", "delete", "edit_failed"}
  /\ Raise(s, qc[s].cancelling)
  /\ UNCHANGED <<yh, files, cancel_reply, pureVars>>

\* lines 502-503 and 504-506: the await of the handler's edit_text returns,
\* raises or is cancelled; the finally block runs in each case
handler_done(s) ==
  /\ s \in DOMAIN qc
  /\ qc[s].pc \in {"edit_cancelled", "edit_error"}
  /\ Finally(s, IF qc[s].pc = "edit_cancelled" THEN "cancelled" ELSE "error")
  /\ UNCHANGED <<yh, files, cancel_reply, pureVars>>

\* ------------------------------------------------------------------------
\* The specification of the bot
\* ------------------------------------------------------------------------
Msgs == 1..MaxMsgs
Presses == 1..MaxPresses

UserStep ==
  \/ \E u \in Users : youtube_handler(u)
  \/ \E u \in Users : cancel_handler(u)
  \/ \E m \in Msgs : cancel_callback(m)
  \/ \E m \in Msgs : quality_callback(m)

HandlerStep ==
  \/ \E m \in Msgs : youtube_handler_reply(m)
  \/ \E m \in Msgs : youtube_handler_error(m)
  \/ \E s \in Presses : quality_callback_not_started(s)
  \/ \E s \in Presses : quality_callback_started(s)
  \/ \E s \in Presses : download_cancelled(s)
  \/ \E s \in Presses : engine_tick(s)
  \/ \E s \in Presses : engine_returns(s)
  \/ \E s \in Presses : engine_download_error(s)
  \/ \E s \in Presses : engine_fault(s)
  \/ \E s \in Presses : upload_started(s)
  \/ \E s \in Presses : video_sent(s)
  \/ \E s \in Presses : message_deleted(s)
  \/ \E s \in Presses : failure_reported(s)
  \/ \E s \in Presses : await_raises(s)
  \/ \E s \in Presses : handler_done(s)

Next == UserStep \/ HandlerStep

Spec == Init /\ [][Next]_vars

\* the steps of the handlers that are running: the event loop resumes a
\* handler whose await has completed
YhRun(m) == youtube_handler_reply(m) \/ youtube_handler_error(m)

QcRun(s) ==
  \/ quality_callback_not_started(s) \/ quality_callback_started(s)
  \/ download_cancelled(s) \/ engine_tick(s) \/ engine_returns(s)
  \/ engine_download_error(s) \/ engine_fault(s)
  \/ upload_started(s) \/ video_sent(s) \/ message_deleted(s)
  \/ failure_reported(s) \/ await_raises(s) \/ handler_done(s)

\* every handler that has started runs to completion; nothing is assumed
\* about what the users send or press
FairSpec ==
  /\ Spec
  /\ \A m \in Msgs : WF_vars(YhRun(m))
  /\ \A s \in Presses : WF_vars(QcRun(s))

\* ------------------------------------------------------------------------
\* The classification of lines 195-204 on its own, over a larger set of
\* error messages
\* ------------------------------------------------------------------------
ErrorChunks ==
  {Word(w) : w \in Markers}
    \cup {Chunk("other", n) : n \in {1, 199, 200, 201, 500}}
    \cup {Chunk("Private video", 12)}

ErrorMessages == UNION {[1..k -> ErrorChunks] : k \in 0..MaxChunks}

ClassifyInit ==
  /\ BotInit
  /\ error_msg \in ErrorMessages
  /\ classified = NoOutcome
  /\ downloaded_file = <<>>
  /\ located = NoOutcome
  /\ data = <<>>
  /\ ydl_format = NoFormat
  /\ d = NoSample
  /\ progress_text = NoText

classify ==
  /\ classified = NoOutcome
  /\ classified' = DownloadErrorOutcome(error_msg)
  /\ UNCHANGED <<botVars, error_msg, downloaded_file, located, data,
                 ydl_format, d, progress_text>>

ClassifySpec == ClassifyInit /\ [][classify]_vars

\* ------------------------------------------------------------------------
\* The file lookup of lines 179-193 on its own, over more file names and
\* every set of files the engine may have left
\* ------------------------------------------------------------------------
\* what prepare_filename can return: the title 'video' with each
\* extension, and a title that contains '.mkv'
LocateNames ==
  {VideoPath \o <<x>> : x \in DottedAtoms}
    \cup {<<"downloads/", "a", ".mkv", "b", x>> : x \in {".webm", ".mp4"}}

\* the files that can be in DOWNLOAD_PATH
LocateFiles ==
  {VideoPath \o <<x>> : x \in {".mp4", ".mkv", ".webm"}}
    \cup {<<"downloads/", "a", ".mkv", "b", x>> : x \in {".mp4", ".mkv", ".webm"}}
    \cup {<<"downloads/", "a", ".mp4", "b", ".mp4">>}

LocateInit ==
  /\ processing_request = FALSE
  /\ cancel_requested = FALSE
  /\ current_tasks = <<>>
  /\ yh = <<>>
  /\ qc = <<>>
  /\ holders = {}
  /\ cancel_reply = NoReply
  /\ files \in SUBSET LocateFiles
  /\ downloaded_file \in LocateNames
  /\ located = NoOutcome
  /\ error_msg = <<>>
  /\ classified = NoOutcome
  /\ data = <<>>
  /\ ydl_format = NoFormat
  /\ d = NoSample
  /\ progress_text = NoText

locate ==
  /\ located = NoOutcome
  /\ located' = LocateOutcome(downloaded_file, files)
  /\ UNCHANGED <<botVars, error_msg, classified, downloaded_file, data,
                 ydl_format, d, progress_text>>

LocateSpec == LocateInit /\ [][locate]_vars

\* ------------------------------------------------------------------------
\* The format expression: lines 443-451 of quality_callback, line 463 and
\* line 155, over the callback data a client can send.  A string is a
\* sequence of tokens; "_" is the separator of line 444.
\* ------------------------------------------------------------------------
\* str.split('_')
RECURSIVE Split(_)
Split(str) ==
  LET seps == {i \in DOMAIN str : str[i] = "_"}
  IN  IF seps = {} THEN <<str>>
      ELSE LET i == CHOOSE j \in seps : \A k \in seps : j <= k
           IN  <<SubSeq(str, 1, i - 1)>> \o Split(SubSeq(str, i + 1, Len(str)))

\* line 463: quality if quality != 'best' else 2160
Resolution(quality) == IF quality = <<"best">> THEN <<"2160">> ELSE quality

\* line 155
FormatExpression(resolution) ==
  <<"bestvideo[height<=">> \o resolution
    \o <<"]+bestaudio/best[height<=">> \o resolution \o <<"]">>

\* line 447: the answer to callback data of fewer than three parts
InvalidSelection == <<"Invalid selection">>

\* the second part of the callback data: the buttons of lines 416-422 and
\* what another client can put there
Qualities ==
  { <<"144">>, <<"240">>, <<"360">>, <<"480">>, <<"720">>, <<"1080">>,
    <<"best">>, <<"2160">>, <<"4320">>, <<"999">>, <<"abc">>, <<"720", "p">>,
    <<>> }

Urls ==
  { <<"https://youtu.be/", "id">>,
    <<"https://youtu.be/", "a", "_", "b">>,
    <<"https://youtu.be/", "_", "a", "_", "_">>,
    <<"https://www.youtube.com/watch?v=", "id", "_">> }

\* callback data that passes the filter ^quality_ of line 438
CallbackData ==
  {<<"quality", "_">> \o q \o <<"_">> \o u : q \in Qualities, u \in Urls}
    \cup {<<"quality", "_">> \o q : q \in Qualities}

FormatInit ==
  /\ BotInit
  /\ data \in CallbackData
  /\ ydl_format = NoFormat
  /\ error_msg = <<>>
  /\ classified = NoOutcome
  /\ downloaded_file = <<>>
  /\ located = NoOutcome
  /\ d = NoSample
  /\ progress_text = NoText

\* lines 443-451, 463 and 155
build_format ==
  /\ ydl_format = NoFormat
  /\ LET parts == Split(data) IN
     IF Len(parts) < 3
       THEN ydl_format' = InvalidSelection
       ELSE LET quality == parts[2]
            IN  ydl_format' = FormatExpression(Resolution(quality))
  /\ UNCHANGED <<botVars, error_msg, classified, downloaded_file, located,
                 data, d, progress_text>>

FormatSpec == FormatInit /\ [][build_format]_vars

\* ------------------------------------------------------------------------
\* progress_callback (lines 208-230) on its own.  A missing or None value
\* of the sample is 0 (both are falsy), except for speed: with speed None
\* line 228 raises TypeError, line 240 logs it and nothing is rendered.
\* The percentage is the fraction num / den, kept exact.
\* ------------------------------------------------------------------------
bar_length == 10

\* d.get('speed', 0) when the engine reports speed as None
NoSpeed == -1

Cells(n, cell) == [i \in 1..n |-> cell]

\* lines 212-222
progress_callback(sample) ==
  LET total == IF sample.total_bytes # 0 THEN sample.total_bytes
               ELSE sample.total_bytes_estimate
      downloaded == sample.downloaded_bytes
      filled == (bar_length * downloaded * 100) \div (total * 100)
  IN  IF sample.status # "downloading" \/ total = 0 \/ downloaded = 0
           \/ sample.speed = NoSpeed
        THEN NoText
        ELSE [rendered |-> TRUE,
              percentage |-> [num |-> downloaded * 100, den |-> total],
              filled |-> filled,
              bar |-> Cells(filled, "filled")
                        \o Cells(bar_length - filled, "empty")]

\* the samples the engine reports
ByteCounts == {0, 1, 29, 30, 39, 40, 99, 100, 101, 150, 1000}

Samples ==
  [status : {"downloading", "finished"},
   total_bytes : {0, 40, 100},
   total_bytes_estimate : {0, 30, 100},
   downloaded_bytes : ByteCounts,
   speed : {NoSpeed, 0, 5}]

ProgressInit ==
  /\ BotInit
  /\ d \in Samples
  /\ progress_text = NoText
  /\ error_msg = <<>>
  /\ classified = NoOutcome
  /\ downloaded_file = <<>>
  /\ located = NoOutcome
  /\ data = <<>>
  /\ ydl_format = NoFormat

render ==
  /\ progress_text = NoText
  /\ progress_callback(d) # NoText
  /\ progress_text' = progress_callback(d)
  /\ UNCHANGED <<botVars, error_msg, classified, downloaded_file, located,
                 data, ydl_format, d>>

ProgressSpec == ProgressInit /\ [][render]_vars

\* ------------------------------------------------------------------------
\* Properties
\* ------------------------------------------------------------------------
Sessions == DOMAIN qc

\* C1: at most one call of download_video_with_progress is in progress,
\* also when two quality callbacks arrive for the same keyboard.
C1_OneDownload ==
  Cardinality({s \in Sessions : qc[s].pc = "downloading"}) <= 1

\* C2: once cancel_requested has been set while the download of a session
\* was running, a progress tick ends that download as cancelled and
\* send_video is not called for the session.
C2_CancelStopsDownload ==
  \A s \in Sessions :
    qc[s].cancel_seen =>
      /\ ~qc[s].send_called
      /\ qc[s].ticked => qc[s].pc = "edit_cancelled"

\* C3: whichever way the try block of quality_callback ends, at the return
\* of quality_callback processing_request is False, the user has no entry
\* in current_tasks and cancel_requested is False, so that the test of
\* lines 397-405 admits a URL message of that user.
InTry == {"downloading", "edit_uploading", "send_video", "delete",
          "edit_failed", "edit_cancelled", "edit_error"}

C3_ReleasedOnReturn ==
  [][\A s \in Sessions :
       (qc[s].pc \in InTry /\ qc'[s].pc = "done") =>
         /\ processing_request' = FALSE
         /\ qc[s].user \notin DOMAIN current_tasks'
         /\ cancel_requested' = FALSE]_vars

\* a session that was cancelled in its try block has returned, and the
\* gate is free
C3_Witness ==
  \E s \in Sessions :
    /\ qc[s].pc = "done" /\ qc[s].exit = "cancelled"
    /\ ~processing_request /\ ~cancel_requested
    /\ qc[s].user \notin DOMAIN current_tasks

\* C4: after cancel_callback has run for the keyboard of the message that
\* holds the gate, processing_request is False and the user's entry has
\* left current_tasks.
C4_CancelButtonReleases ==
  \A m \in DOMAIN yh :
    (yh[m].cancel_pressed /\ m \in holders) =>
      /\ ~processing_request
      /\ yh[m].user \notin DOMAIN current_tasks

\* C5: every admission is eventually followed by a release, when started
\* handlers run to completion.
C5_AdmissionLeadsToRelease == processing_request ~> ~processing_request

\* C6: of the URL messages handled while one of them holds the gate, only
\* the holder is admitted; every later one gets the busy reply.
C6_AtomicAdmission ==
  /\ Cardinality(holders) <= 1
  /\ holders # {} => processing_request
  /\ \A h \in holders : yh[h].user \in DOMAIN current_tasks
  /\ \A h \in holders : \A m \in DOMAIN yh : m > h => yh[m].end = "busy"

\* a second URL message got the busy reply while the handler of the
\* admitted one was still sending its keyboard
C6_Witness ==
  \E h \in holders : \E m \in DOMAIN yh :
    m > h /\ yh[h].pc = "reply_keyboard" /\ yh[m].end = "busy"

\* C7: when quality_callback returns for a session whose download produced
\* a file and for which send_video was called, the file is gone.
C7_FileRemovedOnReturn ==
  [][\A s \in Sessions :
       (qc[s].pc # "done" /\ qc'[s].pc = "done"
          /\ qc[s].outcome.success /\ qc[s].send_called) =>
         qc[s].outcome.value.path \notin files']_vars

\* C8: a probe that fails with 'Private video' gives the private-video
\* outcome.
C8_PrivateProbe ==
  \A s \in Sessions :
    Contains(qc[s].probe, "Private video") =>
      qc[s].outcome = Outcome(FALSE, Message("Private video - Login required", <<>>))

\* C9: a progress tick does not make the download fail, and it schedules
\* a progress edit on the event loop.
C9_TickHandedOver ==
  \A s \in Sessions :
    qc[s].ticked =>
      /\ qc[s].scheduled
      /\ qc[s].outcome.value.tag # "Unexpected error: "

\* C10: the outcome for a DownloadError is the first match of 'Private
\* video', 'Members-only', 'Sign in'; otherwise it is 'Download error: '
\* with the first 200 characters of the message.
RECURSIVE CharAt(_, _)
CharAt(s, i) ==
  IF Head(s).n >= i THEN <<Head(s).w, i>> ELSE CharAt(Tail(s), i - Head(s).n)

HasWord(s, w) == \E i \in 1..Len(s) : s[i] = Word(w)

C10_FirstMatch ==
  classified # NoOutcome =>
    LET tag == classified.value.tag
        detail == classified.value.detail
        n == IF StrLen(error_msg) < 200 THEN StrLen(error_msg) ELSE 200
    IN  /\ ~classified.success
        /\ HasWord(error_msg, "Private video")
             => tag = "Private video - Login required"
        /\ (~HasWord(error_msg, "Private video")
              /\ HasWord(error_msg, "Members-only"))
             => tag = "Members-only video"
        /\ (~HasWord(error_msg, "Private video")
              /\ ~HasWord(error_msg, "Members-only")
              /\ HasWord(error_msg, "Sign in"))
             => tag = "Login required - Use /cookies to upload cookies"
        /\ (\A w \in Markers : ~HasWord(error_msg, w))
             => /\ tag = "Download error: "
                /\ StrLen(detail) = n
                /\ \A i \in 1..n : CharAt(detail, i) = CharAt(error_msg, i)

\* a message of more than 200 characters without a marker was cut to 200
C10_Witness ==
  /\ classified.value.tag = "Download error: "
  /\ StrLen(error_msg) > 200
  /\ StrLen(classified.value.detail) = 200

\* C11: every failure outcome that quality_callback reports carries a
\* detail of at most 200 characters.
C11_BoundedDetail ==
  \A s \in Sessions :
    qc[s].pc = "edit_failed" => StrLen(qc[s].outcome.value.detail) <= 200

\* C12: when youtube_handler ends without having sent its keyboard, the
\* admission is undone: processing_request is False and the user has no
\* entry in current_tasks.
C12_AdmissionUndone ==
  [][\A m \in DOMAIN yh :
       (yh[m].pc \in {"reply_keyboard", "reply_error"}
          /\ yh'[m].pc = "done" /\ yh'[m].end # "keyboard") =>
         /\ processing_request' = FALSE
         /\ yh[m].user \notin DOMAIN current_tasks']_vars

\* C15: a URL message handled while processing_request is True gets the
\* busy reply and returns; processing_request, current_tasks,
\* cancel_requested, the sessions and the earlier messages are unchanged,
\* and the rejected message is never taken up again.
C15_BusyChangesNothing ==
  [][/\ (processing_request /\ Len(yh') = Len(yh) + 1) =>
          /\ yh'[Len(yh')].end = "busy"
          /\ yh'[Len(yh')].pc = "done"
          /\ SubSeq(yh', 1, Len(yh)) = yh
          /\ UNCHANGED <<processing_request, current_tasks, cancel_requested,
                         qc, files>>
     /\ \A m \in DOMAIN yh : yh[m].end = "busy" => yh'[m] = yh[m]]_vars

\* a URL message was rejected while a download was running, and the
\* download is still running with the gate held
C15_Witness ==
  \E m \in DOMAIN yh : \E s \in Sessions :
    /\ yh[m].end = "busy" /\ yh[m].pc = "done"
    /\ s < m
    /\ qc[s].pc = "downloading"
    /\ processing_request
    /\ qc[s].user \in DOMAIN current_tasks

\* C18: /cancel from a user without an entry in current_tasks replies 'No
\* active download to cancel' and leaves cancel_requested,
\* processing_request, current_tasks and every handler unchanged.
C18_IdleCancelChangesNothing ==
  [][\A u \in Users :
       (u \notin DOMAIN current_tasks
          /\ cancel_reply' # cancel_reply /\ cancel_reply'.user = u) =>
         /\ cancel_reply'.text = "No active download to cancel"
         /\ UNCHANGED <<cancel_requested, processing_request, current_tasks,
                        yh, qc, files>>]_vars

\* a user without an entry sent /cancel while the session of another user
\* was downloading, and that session goes on
C18_Witness ==
  \E s \in Sessions :
    /\ cancel_reply.text = "No active download to cancel"
    /\ cancel_reply.user # qc[s].user
    /\ cancel_reply.user \notin DOMAIN current_tasks
    /\ qc[s].pc = "downloading" /\ ~qc[s].cancelling
    /\ ~cancel_requested
    /\ processing_request

\* C19: the return of one quality_callback leaves processing_request and
\* current_tasks alone while another session is downloading or while a
\* message admitted later waits for its quality choice.
C19_ReleaseByHolderOnly ==
  [][\A s \in Sessions :
       (/\ qc[s].pc # "done" /\ qc'[s].pc = "done"
        /\ \/ \E s2 \in Sessions \ {s} : qc[s2].pc = "downloading"
           \/ \E h \in holders : h > qc[s].msg /\ KeyboardSent(h)) =>
         UNCHANGED <<processing_request, current_tasks>>]_vars

\* C20: the task stored in current_tasks for a user is the task that runs
\* that user's download.
C20_StoredTaskRunsDownload ==
  \A s \in Sessions :
    (qc[s].pc = "downloading" /\ qc[s].user \in DOMAIN current_tasks) =>
      qc[s].task = current_tasks[qc[s].user]

\* C13: every success outcome of the file lookup carries the path of an
\* existing file whose name ends in '.mp4'.
C13_SuccessIsMp4 ==
  located.success =>
    /\ located.value.path \in files
    /\ located.value.path[Len(located.value.path)] = ".mp4"

\* C14: the format expression is built from the resolution of the callback
\* data when that is one of 144, 240, 360, 480, 720, 1080 or best (best
\* being 2160), and from 720 otherwise.
C14_SupportedResolution ==
  (ydl_format # NoFormat /\ ydl_format # InvalidSelection) =>
    LET quality == Split(data)[2]
    IN  IF quality \in {<<"144">>, <<"240">>, <<"360">>, <<"480">>,
                        <<"720">>, <<"1080">>}
          THEN ydl_format = FormatExpression(quality)
        ELSE IF quality = <<"best">>
          THEN ydl_format = FormatExpression(<<"2160">>)
        ELSE ydl_format = FormatExpression(<<"720">>)

\* C16: for a rendered sample the percentage is within [0,100], the bar
\* has exactly 10 cells and floor(10 * percentage / 100) of them are
\* filled.
C16_BarWithinBounds ==
  progress_text.rendered =>
    LET num == progress_text.percentage.num
        den == progress_text.percentage.den
        bar == progress_text.bar
    IN  /\ 0 <= num /\ num <= 100 * den
        /\ Len(bar) = 10
        /\ Cardinality({i \in DOMAIN bar : bar[i] = "filled"})
             = (10 * num) \div (100 * den)

\* C17: the lookup reports 'Downloaded file not found' exactly when neither
\* the expected path nor the base path with .mp4, .mkv or .webm exists;
\* otherwise it returns the expected path if it exists, else the first
\* existing one of base.mp4, base.mkv, base.webm.
C17_FileLookup ==
  located # NoOutcome =>
    LET expected == ReplaceContainer(downloaded_file)
        base == RsplitBase(downloaded_file)
        mp4 == base \o <<".mp4">>
        mkv == base \o <<".mkv">>
        webm == base \o <<".webm">>
        none == expected \notin files /\ mp4 \notin files
                  /\ mkv \notin files /\ webm \notin files
    IN  /\ none <=> located = Outcome(FALSE, Message("Downloaded file not found", <<>>))
        /\ ~none => located.success
        /\ expected \in files => located.value.path = expected
        /\ (expected \notin files /\ mp4 \in files)
             => located.value.path = mp4
        /\ (expected \notin files /\ mp4 \notin files /\ mkv \in files)
             => located.value.path = mkv
        /\ (expected \notin files /\ mp4 \notin files /\ mkv \notin files
              /\ webm \in files)
             => located.value.path = webm

\* the expected path is missing, base.mkv and base.webm both exist, and the
\* lookup returned base.mkv
C17_Witness ==
  /\ located.success
  /\ ReplaceContainer(downloaded_file) \notin files
  /\ (RsplitBase(downloaded_file) \o <<".mp4">>) \notin files
  /\ (RsplitBase(downloaded_file) \o <<".webm">>) \in files
  /\ located.value.path = RsplitBase(downloaded_file) \o <<".mkv">>
  /\ ReplaceContainer(downloaded_file) # RsplitBase(downloaded_file) \o <<".mp4">>

\* C21: processing_request is True exactly when current_tasks is not
\* empty, and current_tasks holds at most one user.
C21_GateMatchesTasks ==
  /\ processing_request <=> DOMAIN current_tasks # {}
  /\ Cardinality(DOMAIN current_tasks) <= 1

====
